---- MODULE Spec2Model ----
(***************************************************************************)
(* tap-ga4: the report extraction engine of src/tap_ga4/sync.py.           *)
(*                                                                         *)
(* Datetimes are integers counting ticks, TicksPerDay ticks to a calendar  *)
(* day, so that a datetime carries a time of day.  A date string           *)
(* ("%Y-%m-%d") is the number of its calendar day.                         *)
(***************************************************************************)
EXTENDS Integers, Sequences, FiniteSets, TLC

\* ---------------------------------------------------------------- bounds
TicksPerDay == 2
MaxExtraDays == 1
MaxNowOffset == 1
MaxExtraPages == 2
MaxRows == 1
NumStreams == 2
MaxPlanDay == 3
MaxChunkDay == 4
MaxSpan == 3
MaxValue == 1
MaxPropertyId == 2
MaxRowValues == 2
MaxClockDay == 1
MaxFields == 2

\* ------------------------------------------------------ program constants
CONVERSION_WINDOW == 90
REPORT_LIMIT == 100000
max_tries == 5
REQUEST_RANGE == 7
NoStream == 0
DATE == 1
\* the other names of DATETIME_FORMATS and a metric's name, numbered in the
\* order Python sorts the strings (DATE - 1 is a dimension sorted before 'date')
DATE_HOUR == 2
DATE_HOUR_MINUTE == 3
FIRST_SESSION_DATE == 4
SESSIONS == 5

\* ------------------------------------------------------------- datetimes
\* timedelta(days=n)
Days(n) == n * TicksPerDay

\* datetime.strftime("%Y-%m-%d"): the calendar day, the time of day is dropped
StrfDate(t) == t \div TicksPerDay

\* utils.strptime_to_utc of a "%Y-%m-%d" string: midnight of that day
StrpDate(d) == d * TicksPerDay

\* datetime.replace(hour=0, minute=0, second=0, microsecond=0)
Midnight(t) == t - (t % TicksPerDay)

Min2(a, b) == IF b < a THEN b ELSE a
Max2(a, b) == IF b > a THEN b ELSE a

\* ----------------------------------------------------------- input sets
Streams == 1..NumStreams
TimesOfDay == 0..(TicksPerDay - 1)
\* the runs of sync: a span that starts on day 0 and ends on day 0, or with
\* the first chunk, or up to MaxExtraDays days into the second chunk
StartDates == {Days(0) + t : t \in TimesOfDay}
EndDays == {0} \cup ((REQUEST_RANGE - 1)..(REQUEST_RANGE - 1 + MaxExtraDays))
EndDates == {Days(d) + t : d \in EndDays, t \in TimesOfDay}
\* utils.now(): the clock is read late enough for the conversion day to fall
\* into the configured span, at the last tick of a day (sync uses the clock
\* only through its midnight; PlanNows has every time of day)
Nows == {Days(CONVERSION_WINDOW + d) + (TicksPerDay - 1) : d \in 1..MaxNowOffset}
Configs == [start_date : StartDates, end_date : EndDates]
RowCounts == {0, REPORT_LIMIT}
             \cup {k * REPORT_LIMIT + (REPORT_LIMIT \div 2) : k \in 1..MaxExtraPages}
Outcomes == {"ok", "ServerError", "TooManyRequests", "ResourceExhausted", "OtherError"}

\* -------------------------------------------------- get_report_start_date
HasBookmark(state, tap_stream_id) == tap_stream_id \in DOMAIN state.bookmarks

\* the conversion day taken from the clock as read, not from its midnight
get_report_start_date_unrounded(config, state, tap_stream_id, now) ==
    IF ~HasBookmark(state, tap_stream_id)
    THEN config.start_date
    ELSE LET bookmark == StrpDate(state.bookmarks[tap_stream_id])
             conversion_day == now - Days(CONVERSION_WINDOW)
         IN  Min2(bookmark, Max2(config.start_date, conversion_day))

\* the later of bookmark and window start, max for the min of line 135
get_report_start_date_latest(config, state, tap_stream_id, now) ==
    IF ~HasBookmark(state, tap_stream_id)
    THEN config.start_date
    ELSE LET bookmark == StrpDate(state.bookmarks[tap_stream_id])
             conversion_day == Midnight(now) - Days(CONVERSION_WINDOW)
         IN  Max2(bookmark, Max2(config.start_date, conversion_day))

\* the earlier of start_date and conversion day, min for the max of line 135
get_report_start_date_earliest(config, state, tap_stream_id, now) ==
    IF ~HasBookmark(state, tap_stream_id)
    THEN config.start_date
    ELSE LET bookmark == StrpDate(state.bookmarks[tap_stream_id])
             conversion_day == Midnight(now) - Days(CONVERSION_WINDOW)
         IN  Min2(bookmark, Min2(config.start_date, conversion_day))

get_report_start_date(config, state, tap_stream_id, now) ==
    IF ~HasBookmark(state, tap_stream_id)
    THEN config.start_date
    ELSE LET bookmark == StrpDate(state.bookmarks[tap_stream_id])
             conversion_day == Midnight(now) - Days(CONVERSION_WINDOW)
         IN  Min2(bookmark, Max2(config.start_date, conversion_day))

\* ------------------------------------------------------------ get_end_date
get_end_date(config, now) ==
    IF "end_date" \in DOMAIN config THEN config.end_date ELSE Midnight(now)

\* --------------------------------------------------- generate_report_dates
\* One step of the generator: the chunk yielded from range_start, and the
\* range_start the generator resumes from.
ChunkRangeEnd(range_start, request_range) == range_start + Days(request_range - 1)
ChunkYield(range_start, end_date, request_range) ==
    <<StrfDate(range_start), StrfDate(Min2(end_date, ChunkRangeEnd(range_start, request_range)))>>
ChunkResume(range_start, request_range) == ChunkRangeEnd(range_start, request_range) + Days(1)

\* ------------------------------------------------ generate_sdc_record_hash
\* sorted(dimension_pairs): tuples compare by their first members, then by
\* their second
PairLess(p, q) == p[1] < q[1] \/ (p[1] = q[1] /\ p[2] < q[2])

RECURSIVE Insert(_, _)
Insert(p, sq) ==
    IF sq = <<>> THEN <<p>>
    ELSE IF PairLess(p, Head(sq)) THEN <<p>> \o sq
    ELSE <<Head(sq)>> \o Insert(p, Tail(sq))

RECURSIVE sorted(_)
sorted(sq) == IF sq = <<>> THEN <<>> ELSE Insert(Head(sq), sorted(Tail(sq)))

\* the pairs hashed in the order of the response's headers
generate_sdc_record_hash_unsorted(record, dimension_pairs) ==
    <<record.property_id, dimension_pairs, record.start_date, record.end_date>>

\* the SHA-256 of the JSON list is one-to-one on the list; the list stands
\* for its digest
generate_sdc_record_hash(record, dimension_pairs) ==
    <<record.property_id, sorted(dimension_pairs), record.start_date, record.end_date>>

\* ---------------------------------------------------------- row_to_record
\* list(zip(a, b)): pairs up to the shorter of the two
zip(a, b) ==
    [i \in 1..(IF Len(a) < Len(b) THEN Len(a) ELSE Len(b)) |-> <<a[i], b[i]>>]

\* dict.update(pairs): a later pair of a name replaces an earlier one
update(pairs) ==
    [n \in {pairs[i][1] : i \in DOMAIN pairs} |->
        pairs[CHOOSE i \in DOMAIN pairs :
                 /\ pairs[i][1] = n
                 /\ \A j \in DOMAIN pairs : pairs[j][1] = n => j <= i][2]]

\* list.index(x): the first position of x
index(sq, x) == CHOOSE i \in DOMAIN sq : sq[i] = x /\ \A j \in DOMAIN sq : sq[j] = x => i <= j

row_to_record(report, row, dimension_headers, metric_headers) ==
    LET dimension_values == row.dimension_values
        dimension_pairs == zip(dimension_headers, dimension_values)
        report_date == dimension_values[index(dimension_headers, DATE)]
        record == [dimensions |-> update(dimension_pairs),
                   metrics |-> update(zip(metric_headers, row.metric_values)),
                   start_date |-> report_date,
                   end_date |-> report_date,
                   property_id |-> report.property_id]
    IN  [dimensions |-> record.dimensions,
         metrics |-> record.metrics,
         start_date |-> record.start_date,
         end_date |-> record.end_date,
         property_id |-> record.property_id,
         _sdc_record_hash |-> generate_sdc_record_hash(record, dimension_pairs)]

\* -------------------------------------------------------------- paging
\* a page too many: the comparison of line 185 with >= for >
HasMoreRowsInclusive(rc, off) == rc >= REPORT_LIMIT + off

\* make_request, line 185
HasMoreRows(rc, off) == rc > REPORT_LIMIT + off

\* ------------------------------------------------- backoff.on_exception
\* every exception caught and retried
RetryableAny == Outcomes \ {"ok"}

\* (ServerError, TooManyRequests, ResourceExhausted): the exceptions the
\* decorator catches; every other exception leaves make_request at once
Retryable == {"ServerError", "TooManyRequests", "ResourceExhausted"}

\* giveup=sleep_if_quota_reached: sleeps on ResourceExhausted, and answers
\* False for every exception
sleep_if_quota_reached(ex) == FALSE

\* an attempt too many: the cap compared with > for ==
MaxTriesExceededLate(n) == n > max_tries

\* the decorator's "tries == max_tries" after the failed attempt number n
MaxTriesExceeded(n) == n = max_tries

\* the decorator re-raises the exception of the failed attempt number n
GivesUp(ex, n) == sleep_if_quota_reached(ex) \/ MaxTriesExceeded(n)

\* utils.now() read when sleep_if_quota_reached runs: a datetime of a day
\* number, hour, minute, second and microsecond
QuotaClocks == {[day |-> 0, hour |-> 0, minute |-> 0, second |-> 0, microsecond |-> 0],
                [day |-> 0, hour |-> 23, minute |-> 59, second |-> 59,
                 microsecond |-> 999999]}
NoClock == [day |-> 0, hour |-> 0, minute |-> 0, second |-> 0, microsecond |-> 0]

\* datetime + timedelta(hours=1)
PlusHour(dt) ==
    IF dt.hour = 23 THEN [dt EXCEPT !.day = @ + 1, !.hour = 0]
    ELSE [dt EXCEPT !.hour = @ + 1]

SecondOfDay(dt) == dt.hour * 3600 + dt.minute * 60 + dt.second

\* (a - b).seconds: a timedelta is normalized to days, 0 <= seconds < 86400
\* and 0 <= microseconds < 1000000
TimedeltaSeconds(a, b) ==
    ((a.day - b.day) * 86400 + SecondOfDay(a) - SecondOfDay(b)
     + ((a.microsecond - b.microsecond) \div 1000000)) % 86400

\* next_hour replaced at the top of the hour instead of 10 seconds past it
seconds_to_next_hour_sharp(clock) ==
    TimedeltaSeconds([PlusHour(clock) EXCEPT !.minute = 0, !.second = 0, !.microsecond = 0],
                     clock)

\* lines 150-156
seconds_to_next_hour(clock) ==
    LET current_utc_time == clock
        next_hour == [PlusHour(current_utc_time) EXCEPT
                         !.minute = 0, !.second = 10, !.microsecond = 0]
    IN  TimedeltaSeconds(next_hour, current_utc_time)

\* the sleep skipped when the attempts are used up: "tries == max_tries"
\* evaluated before giveup(e)
QuotaSleepUnlessExhausted(ex, n, clock) ==
    IF ex = "ResourceExhausted" /\ ~MaxTriesExceeded(n)
    THEN <<seconds_to_next_hour(clock)>>
    ELSE <<>>

\* lines 160-163: the seconds sleep_if_quota_reached sleeps when the decorator
\* calls giveup(e) after the failed attempt number n, which it does before
\* it tests "tries == max_tries"
QuotaSleep(ex, n, clock) ==
    IF ex = "ResourceExhausted" THEN <<seconds_to_next_hour(clock)>> ELSE <<>>

\* backoff.expo, jitter=None: the seconds the decorator sleeps before it
\* tries again after the failed attempt number n
expo(n) == 2 ^ (n - 1)

\* the attempts of a make_request call: none made yet
NoAttempt == [outcome |-> "none", at |-> NoClock, slept |-> <<>>]

\* ------------------------------------------------------ field selection
\* Python's True, False and None, and the strings of the metadata, are
\* strings; a field's metadata is its breadcrumb and the values of
\* .get("inclusion"), .get("selected"), .get("selected-by-default"),
\* .get("behavior").
Truthy(v) == v = "True"

FieldName(i) == "field" \o ToString(i)
RootMetadata ==
    [breadcrumb |-> <<>>, inclusion |-> "available", selected |-> "True",
     selected_by_default |-> "None", behavior |-> "None"]

\* selected-by-default taken whatever "selected" says
IncludedByDefault(field_mdata) ==
    \/ field_mdata.inclusion = "automatic"
    \/ Truthy(field_mdata.selected)
    \/ Truthy(field_mdata.selected_by_default)

\* lines 265-267
Included(field_mdata) ==
    \/ field_mdata.inclusion = "automatic"
    \/ Truthy(field_mdata.selected)
    \/ (Truthy(field_mdata.selected_by_default) /\ field_mdata.selected = "None")

NoReport == [metrics |-> <<>>, dimensions |-> <<>>]

\* lines 259-271: one turn of the loop over mdata.items()
SelectField(rep, field_mdata) ==
    IF field_mdata.breadcrumb = <<>> THEN rep
    ELSE IF field_mdata.inclusion = "unsupported" THEN rep
    ELSE IF ~Included(field_mdata) THEN rep
    ELSE IF field_mdata.behavior = "METRIC"
    THEN [rep EXCEPT !.metrics = Append(@, field_mdata.breadcrumb[2])]
    ELSE IF field_mdata.behavior = "DIMENSION"
    THEN [rep EXCEPT !.dimensions = Append(@, field_mdata.breadcrumb[2])]
    ELSE rep

\* lines 256-271
RECURSIVE SelectFrom(_, _)
SelectFrom(rep, items) ==
    IF items = <<>> THEN rep
    ELSE SelectFrom(SelectField(rep, Head(items)), Tail(items))
select_fields(items) == SelectFrom(NoReport, items)

\* the metadata of the streams of Spec: the stream's own entry, an automatic
\* dimension and a selected metric
StreamMetadata ==
    <<RootMetadata,
      [breadcrumb |-> <<"properties", FieldName(1)>>, inclusion |-> "automatic",
       selected |-> "None", selected_by_default |-> "None", behavior |-> "DIMENSION"],
      [breadcrumb |-> <<"properties", FieldName(2)>>, inclusion |-> "available",
       selected |-> "True", selected_by_default |-> "None", behavior |-> "METRIC"]>>

\* ------------------------------------------------------------ the state
VARIABLES
    config,            \* config.json
    now,               \* utils.now() of the running process
    state,             \* the state dict sync mutates
    written,           \* the last state handed to singer.write_state
    selected_streams,  \* the streams the loop of sync has not started yet
    stream,            \* the stream of the running loop iteration
    pc,                \* where sync stands
    start_date, end_date,               \* sync's locals
    request_range,                      \* sync_report's argument
    range_start,                        \* generate_report_dates' local
    chunks,                             \* the chunks generate_report_dates yielded
    range_start_date, range_end_date,   \* the chunk sync_report works on
    row_count,         \* the total the API reports for the chunk's query
    offset, has_more_rows,              \* get_report's locals
    tries,             \* the decorator's attempt counter
    attempt,           \* the last attempt of the make_request call: its outcome,
                       \* the clock sleep_if_quota_reached read, the sleeps since
    error,             \* the exception that ended sync, "none" while there is none
    rows_left,         \* rows of the response not yet written as records
    pages,             \* offsets of the responses get_report yielded for the chunk
    first_unemitted,   \* per stream, the earliest day whose rows were never all written
    schemas,           \* per stream, the schemas the running process wrote for it
    mdata,             \* the metadata of a stream of the catalog, in its order
    report,            \* the metrics and dimensions of sync's report
    reran,             \* the tap has been run again
    records            \* SpecRecord: the rows made into records, in order

vars == <<config, now, state, written, selected_streams, stream, pc, start_date,
          end_date, range_start, range_start_date, range_end_date, row_count,
          offset, has_more_rows, tries, error, rows_left, pages,
          first_unemitted, reran, request_range, chunks, records, attempt, schemas, mdata, report>>

chunk_vars == <<request_range, range_start, chunks, range_start_date, range_end_date, row_count>>
page_vars == <<offset, has_more_rows, pages>>
retry_vars == <<tries, attempt>>
run_vars == <<config, now, reran, records>>

\* singer's Catalog.get_selected_streams(state): the catalog's streams, rotated
\* to begin at state's currently_syncing stream
RECURSIVE StreamsFrom(_)
StreamsFrom(n) == IF n > NumStreams THEN <<>> ELSE <<n>> \o StreamsFrom(n + 1)
RECURSIVE StreamsBelow(_, _)
StreamsBelow(n, m) == IF n >= m THEN <<>> ELSE <<n>> \o StreamsBelow(n + 1, m)
get_selected_streams(st) ==
    IF st.currently_syncing = NoStream
    THEN StreamsFrom(1)
    ELSE StreamsFrom(st.currently_syncing) \o StreamsBelow(1, st.currently_syncing)

\* singer.write_bookmark(state, id, property_id, {"last_report_date": d})
write_bookmark(st, id, d) ==
    [st EXCEPT !.bookmarks =
        [s \in (DOMAIN st.bookmarks) \cup {id} |-> IF s = id THEN d ELSE st.bookmarks[s]]]

\* the marker never set
set_currently_syncing_skipped(st, id) == st

\* singer.set_currently_syncing(state, id)
set_currently_syncing(st, id) == [st EXCEPT !.currently_syncing = id]

EmptyState == [currently_syncing |-> NoStream, bookmarks |-> <<>>]

\* no schema written
write_schema_skipped(sch, id) == sch

\* lines 275-277: singer.write_schema for the stream
write_schema(sch, id) == [sch EXCEPT ![id] = @ + 1]

\* a process has written no schema when it starts
NoSchemas == [s \in Streams |-> 0]

\* the process starts (or starts again) from the state last written
Start(st) ==
    /\ state = st
    /\ written = st
    /\ selected_streams = get_selected_streams(st)
    /\ stream = NoStream
    /\ pc = "streams"
    /\ start_date = 0 /\ end_date = 0
    /\ request_range = REQUEST_RANGE /\ chunks = <<>>
    /\ range_start = 0 /\ range_start_date = 0 /\ range_end_date = 0
    /\ row_count = 0 /\ offset = 0 /\ has_more_rows = FALSE
    /\ tries = 0 /\ error = "none"
    /\ attempt = NoAttempt
    /\ rows_left = 0 /\ pages = <<>>

Init ==
    /\ config \in Configs
    /\ now \in Nows
    /\ Start(EmptyState)
    /\ first_unemitted = [s \in Streams |-> StrfDate(config.start_date)]
    /\ schemas = NoSchemas
    /\ mdata = StreamMetadata
    /\ report = NoReport
    /\ reran = FALSE
    /\ records = <<>>

\* ------------------------------------------------------------------ sync
\* a chunk [a, b] whose rows are all written moves the stream's earliest
\* unwritten day past it
AllWritten(fu, id, a, b) ==
    [fu EXCEPT ![id] = IF a <= fu[id] /\ fu[id] <= b THEN b + 1 ELSE fu[id]]

\* line 252: the loop takes the next selected stream; lines 253: the stream is
\* marked as the one syncing
SetCurrentlySyncing ==
    /\ pc = "streams"
    /\ selected_streams # <<>>
    /\ stream' = Head(selected_streams)
    /\ selected_streams' = Tail(selected_streams)
    /\ state' = set_currently_syncing(state, Head(selected_streams))
    /\ pc' = "syncing_set"
    /\ UNCHANGED <<run_vars, written, start_date, end_date, chunk_vars, page_vars,
                   retry_vars, error, rows_left, first_unemitted, schemas, mdata, report>>

\* line 254 left out
WriteSyncingSkipped ==
    /\ pc = "syncing_set"
    /\ pc' = "selecting"
    /\ UNCHANGED <<run_vars, state, written, selected_streams, stream, start_date,
                   end_date, chunk_vars, page_vars, retry_vars, error, rows_left,
                   first_unemitted, schemas, mdata, report>>

\* line 254
WriteSyncing ==
    /\ pc = "syncing_set"
    /\ written' = state
    /\ pc' = "selecting"
    /\ UNCHANGED <<run_vars, state, selected_streams, stream, start_date, end_date,
                   chunk_vars, page_vars, retry_vars, error, rows_left, first_unemitted, schemas, mdata, report>>

\* lines 256-285: the report's fields, the end date, write_schema, the start
\* date; line 226 then creates the generator of the chunks
PlanReport ==
    /\ pc = "selecting"
    /\ end_date' = get_end_date(config, now)
    /\ start_date' = get_report_start_date(config, state, stream, now)
    /\ request_range' = REQUEST_RANGE
    /\ range_start' = get_report_start_date(config, state, stream, now)
    /\ chunks' = <<>>
    /\ schemas' = write_schema(schemas, stream)
    /\ report' = select_fields(mdata)
    /\ pc' = "chunks"
    /\ UNCHANGED <<run_vars, state, written, selected_streams, stream,
                   range_start_date, range_end_date, row_count, page_vars,
                   retry_vars, error, rows_left, first_unemitted, mdata>>

\* line 226: the generator yields the next chunk; lines 202-203: get_report
\* starts on it
NextChunk ==
    /\ pc = "chunks"
    /\ range_start <= end_date
    /\ range_start_date' = ChunkYield(range_start, end_date, request_range)[1]
    /\ range_end_date' = ChunkYield(range_start, end_date, request_range)[2]
    /\ chunks' = Append(chunks, ChunkYield(range_start, end_date, request_range))
    /\ range_start' = ChunkResume(range_start, request_range)
    /\ UNCHANGED request_range
    /\ row_count' \in RowCounts
    /\ offset' = 0
    /\ has_more_rows' = TRUE
    /\ pages' = <<>>
    /\ tries' = 0
    /\ attempt' = NoAttempt
    /\ pc' = "request"
    /\ UNCHANGED <<run_vars, state, written, selected_streams, stream, start_date,
                   end_date, error, rows_left, first_unemitted, schemas, mdata, report>>

\* sync_report ending with a bookmark of end_date
StreamDoneBookmarked ==
    /\ pc = "chunks"
    /\ ~(range_start <= end_date)
    /\ state' = write_bookmark(state, stream, StrfDate(end_date))
    /\ written' = write_bookmark(state, stream, StrfDate(end_date))
    /\ pc' = "streams"
    /\ UNCHANGED <<run_vars, selected_streams, stream, start_date, end_date,
                   chunk_vars, page_vars, retry_vars, error, rows_left,
                   first_unemitted, schemas, mdata, report>>

\* line 226: the generator is exhausted; line 287
StreamDone ==
    /\ pc = "chunks"
    /\ ~(range_start <= end_date)
    /\ written' = state
    /\ pc' = "streams"
    /\ UNCHANGED <<run_vars, state, selected_streams, stream, start_date, end_date,
                   chunk_vars, page_vars, retry_vars, error, rows_left, first_unemitted, schemas, mdata, report>>

\* lines 167-194: one attempt of make_request under the decorator, the
\* response of the API being any of Outcomes
Respond ==
    /\ pc = "request"
    /\ tries' = tries + 1
    /\ attempt' = [outcome |-> "ok", at |-> NoClock, slept |-> <<>>]
    /\ has_more_rows' = HasMoreRows(row_count, offset)
    /\ offset' = offset + REPORT_LIMIT
    /\ pages' = Append(pages, offset)
    /\ \E n \in 0..MaxRows :
          /\ rows_left' = n
          /\ first_unemitted' =
                IF n = 0 /\ ~HasMoreRows(row_count, offset)
                THEN AllWritten(first_unemitted, stream, range_start_date, range_end_date)
                ELSE first_unemitted
    /\ pc' = "rows"
    /\ UNCHANGED <<run_vars, state, written, selected_streams, stream, start_date,
                   end_date, chunk_vars, error, schemas, mdata, report>>

\* make_request keeping the offset it advanced when the attempt raised
FailAdvancing ==
    /\ pc = "request"
    /\ \E ex \in Outcomes \ {"ok"}, clock \in QuotaClocks :
          /\ tries' = tries + 1
          /\ IF ex \notin Retryable
             THEN /\ pc' = "failed" /\ error' = ex
                  /\ attempt' = [outcome |-> ex, at |-> NoClock, slept |-> <<>>]
             ELSE IF GivesUp(ex, tries + 1)
             THEN /\ pc' = "failed" /\ error' = ex
                  /\ attempt' = [outcome |-> ex,
                                  at |-> IF ex = "ResourceExhausted" THEN clock ELSE NoClock,
                                  slept |-> QuotaSleep(ex, tries + 1, clock)]
             ELSE /\ pc' = "request" /\ error' = error
                  /\ attempt' = [outcome |-> ex,
                                  at |-> IF ex = "ResourceExhausted" THEN clock ELSE NoClock,
                                  slept |-> QuotaSleep(ex, tries + 1, clock)
                                            \o <<expo(tries + 1)>>]
    /\ offset' = offset + REPORT_LIMIT
    /\ UNCHANGED <<run_vars, state, written, selected_streams, stream, start_date,
                   end_date, chunk_vars, has_more_rows, pages, rows_left,
                   first_unemitted, schemas, mdata, report>>

\* lines 167-194: one attempt of make_request that raises.  An exception
\* the decorator does not catch leaves at once; one it catches is handed to
\* giveup (which sleeps on ResourceExhausted), then raised if the attempts
\* are used up, else followed by the backoff sleep and another attempt.
Fail ==
    /\ pc = "request"
    /\ \E ex \in Outcomes \ {"ok"}, clock \in QuotaClocks :
          /\ tries' = tries + 1
          /\ IF ex \notin Retryable
             THEN /\ pc' = "failed" /\ error' = ex
                  /\ attempt' = [outcome |-> ex, at |-> NoClock, slept |-> <<>>]
             ELSE IF GivesUp(ex, tries + 1)
             THEN /\ pc' = "failed" /\ error' = ex
                  /\ attempt' = [outcome |-> ex,
                                  at |-> IF ex = "ResourceExhausted" THEN clock ELSE NoClock,
                                  slept |-> QuotaSleep(ex, tries + 1, clock)]
             ELSE /\ pc' = "request" /\ error' = error
                  /\ attempt' = [outcome |-> ex,
                                  at |-> IF ex = "ResourceExhausted" THEN clock ELSE NoClock,
                                  slept |-> QuotaSleep(ex, tries + 1, clock)
                                            \o <<expo(tries + 1)>>]
    /\ UNCHANGED <<run_vars, state, written, selected_streams, stream, start_date,
                   end_date, chunk_vars, page_vars, rows_left, first_unemitted, schemas, mdata, report>>

\* lines 232-240: one row of the response becomes a record
WriteRecord ==
    /\ pc = "rows"
    /\ rows_left > 0
    /\ rows_left' = rows_left - 1
    /\ first_unemitted' =
          IF rows_left = 1 /\ ~has_more_rows
          THEN AllWritten(first_unemitted, stream, range_start_date, range_end_date)
          ELSE first_unemitted
    /\ UNCHANGED <<run_vars, state, written, selected_streams, stream, pc, start_date,
                   end_date, chunk_vars, page_vars, retry_vars, error, schemas, mdata, report>>

\* lines 241-244
WriteBookmark ==
    /\ pc = "rows"
    /\ rows_left = 0
    /\ state' = write_bookmark(state, stream, range_end_date)
    /\ pc' = "bookmark_set"
    /\ UNCHANGED <<run_vars, written, selected_streams, stream, start_date, end_date,
                   chunk_vars, page_vars, retry_vars, error, rows_left, first_unemitted, schemas, mdata, report>>

\* line 245, and line 204: get_report goes on with the next page, or ends
WriteState ==
    /\ pc = "bookmark_set"
    /\ written' = state
    /\ pc' = IF has_more_rows THEN "request" ELSE "chunks"
    /\ tries' = 0
    /\ attempt' = NoAttempt
    /\ UNCHANGED <<run_vars, state, selected_streams, stream, start_date, end_date,
                   chunk_vars, page_vars, error, rows_left, first_unemitted, schemas, mdata, report>>

\* line 289
ClearCurrentlySyncing ==
    /\ pc = "streams"
    /\ selected_streams = <<>>
    /\ state' = set_currently_syncing(state, NoStream)
    /\ pc' = "cleared"
    /\ UNCHANGED <<run_vars, written, selected_streams, stream, start_date, end_date,
                   chunk_vars, page_vars, retry_vars, error, rows_left, first_unemitted, schemas, mdata, report>>

\* line 290
WriteFinal ==
    /\ pc = "cleared"
    /\ written' = state
    /\ pc' = "done"
    /\ UNCHANGED <<run_vars, state, selected_streams, stream, start_date, end_date,
                   chunk_vars, page_vars, retry_vars, error, rows_left, first_unemitted, schemas, mdata, report>>

\* The process ends (it finished, it raised, or it was killed at any point) and
\* the tap is run again, no earlier, on the state last written.
Rerun ==
    /\ ~reran
    /\ reran' = TRUE
    /\ now' \in {n \in Nows : n >= now}
    /\ state' = written
    /\ selected_streams' = get_selected_streams(written)
    /\ stream' = NoStream
    /\ pc' = "streams"
    /\ start_date' = 0 /\ end_date' = 0
    /\ request_range' = REQUEST_RANGE /\ chunks' = <<>>
    /\ range_start' = 0 /\ range_start_date' = 0 /\ range_end_date' = 0
    /\ row_count' = 0 /\ offset' = 0 /\ has_more_rows' = FALSE
    /\ tries' = 0 /\ error' = "none"
    /\ attempt' = NoAttempt
    /\ rows_left' = 0 /\ pages' = <<>>
    /\ schemas' = NoSchemas
    /\ report' = NoReport
    /\ UNCHANGED <<config, written, first_unemitted, records, mdata>>

Next ==
    \/ SetCurrentlySyncing
    \/ WriteSyncing
    \/ PlanReport
    \/ NextChunk
    \/ StreamDone
    \/ Respond
    \/ Fail
    \/ WriteRecord
    \/ WriteBookmark
    \/ WriteState
    \/ ClearCurrentlySyncing
    \/ WriteFinal
    \/ Rerun

Spec == Init /\ [][Next]_vars

TypeOK ==
    /\ pc \in {"streams", "syncing_set", "selecting", "chunks", "request", "rows",
               "bookmark_set", "cleared", "done", "failed"}
    /\ tries \in 0..max_tries
    /\ stream \in Streams \cup {NoStream}

\* ---------------------------------------------------------- SpecPlan
\* get_report_start_date and get_end_date on every configuration, bookmark and
\* clock of a window of MaxPlanDay days: sync stands before line 273.
PlanDates == {Days(d) + t : d \in 0..MaxPlanDay, t \in TimesOfDay}
PlanNows == {Days(CONVERSION_WINDOW + d) + t : d \in 0..MaxPlanDay, t \in TimesOfDay}
\* config.json: start_date is required, end_date is optional
PlanConfigs == [start_date : PlanDates, end_date : {Days(MaxPlanDay)}]
               \cup [start_date : PlanDates]
PlanStates == {set_currently_syncing(EmptyState, 1)}
              \cup {write_bookmark(set_currently_syncing(EmptyState, 1), 1, d) : d \in 0..MaxPlanDay}

InitPlan ==
    /\ config \in PlanConfigs
    /\ now \in PlanNows
    /\ \E st \in PlanStates : state = st /\ written = st
    /\ selected_streams = <<>>
    /\ stream = 1
    /\ pc = "selecting"
    /\ start_date = 0 /\ end_date = 0
    /\ request_range = REQUEST_RANGE /\ chunks = <<>>
    /\ range_start = 0 /\ range_start_date = 0 /\ range_end_date = 0
    /\ row_count = 0 /\ offset = 0 /\ has_more_rows = FALSE
    /\ tries = 0 /\ error = "none"
    /\ attempt = NoAttempt
    /\ rows_left = 0 /\ pages = <<>>
    /\ first_unemitted = [s \in Streams |-> StrfDate(config.start_date)]
    /\ schemas = NoSchemas
    /\ mdata = StreamMetadata
    /\ report = NoReport
    /\ reran = FALSE
    /\ records = <<>>

NextPlan == PlanReport

SpecPlan == InitPlan /\ [][NextPlan]_vars

\* --------------------------------------------------------- SpecDates
\* generate_report_dates run to its end on every span of MaxChunkDay days and
\* every request_range up to MaxSpan.
ChunkDates == {Days(d) + t : d \in 0..MaxChunkDay, t \in TimesOfDay}

InitDates ==
    /\ start_date \in ChunkDates
    /\ end_date \in ChunkDates
    /\ request_range \in 1..MaxSpan
    /\ range_start = start_date
    /\ chunks = <<>>
    /\ pc = "chunks"
    /\ config = [start_date |-> start_date, end_date |-> end_date]
    /\ now = Days(CONVERSION_WINDOW)
    /\ state = set_currently_syncing(EmptyState, 1)
    /\ written = set_currently_syncing(EmptyState, 1)
    /\ selected_streams = <<>>
    /\ stream = 1
    /\ range_start_date = 0 /\ range_end_date = 0
    /\ row_count = 0 /\ offset = 0 /\ has_more_rows = FALSE
    /\ tries = 0 /\ error = "none"
    /\ attempt = NoAttempt
    /\ rows_left = 0 /\ pages = <<>>
    /\ first_unemitted = [s \in Streams |-> StrfDate(start_date)]
    /\ schemas = NoSchemas
    /\ mdata = StreamMetadata
    /\ report = NoReport
    /\ reran = FALSE
    /\ records = <<>>

\* lines 51-55: one turn of the generator's loop
YieldChunk ==
    /\ pc = "chunks"
    /\ range_start <= end_date
    /\ chunks' = Append(chunks, ChunkYield(range_start, end_date, request_range))
    /\ range_start' = ChunkResume(range_start, request_range)
    /\ UNCHANGED <<run_vars, state, written, selected_streams, stream, pc, start_date,
                   end_date, request_range, range_start_date, range_end_date, row_count,
                   page_vars, retry_vars, error, rows_left, first_unemitted, schemas, mdata, report>>

NextDates == YieldChunk

SpecDates == InitDates /\ [][NextDates]_vars

\* --------------------------------------------------------- SpecRecord
\* row_to_record on two rows, each of a response of its own: any property,
\* any order of the dimension headers, any values.
PropertyIds == 1..MaxPropertyId
Values == 0..MaxValue
DimensionHeaders == {<<DATE>>, <<DATE - 1, DATE>>, <<DATE, DATE - 1>>}
MetricHeaders == {<<DATE + 1>>}
SeqsOf(S, n) == [1..n -> S]

InitRecord ==
    /\ records = <<>>
    /\ pc = "rows"
    /\ config = [start_date |-> 0, end_date |-> 0]
    /\ now = Days(CONVERSION_WINDOW)
    /\ state = set_currently_syncing(EmptyState, 1)
    /\ written = set_currently_syncing(EmptyState, 1)
    /\ selected_streams = <<>>
    /\ stream = 1
    /\ start_date = 0 /\ end_date = 0
    /\ request_range = REQUEST_RANGE /\ chunks = <<>>
    /\ range_start = 0 /\ range_start_date = 0 /\ range_end_date = 0
    /\ row_count = 0 /\ offset = 0 /\ has_more_rows = FALSE
    /\ tries = 0 /\ error = "none"
    /\ attempt = NoAttempt
    /\ rows_left = 0 /\ pages = <<>>
    /\ first_unemitted = [s \in Streams |-> 0]
    /\ schemas = NoSchemas
    /\ mdata = StreamMetadata
    /\ report = NoReport
    /\ reran = FALSE

\* lines 233-234: the clock is read and the row made into a record
RowToRecord ==
    /\ pc = "rows"
    /\ Len(records) <= 1
    /\ \E property_id \in PropertyIds, dimension_headers \in DimensionHeaders,
          metric_headers \in MetricHeaders :
          \E dimension_values \in SeqsOf(Values, Len(dimension_headers)),
             metric_values \in SeqsOf(Values, Len(metric_headers)) :
             records' = Append(records,
                 [time_extracted |-> Len(records) + 1,
                  dimension_headers |-> dimension_headers,
                  dimension_values |-> dimension_values,
                  rec |-> row_to_record([property_id |-> property_id],
                                        [dimension_values |-> dimension_values,
                                         metric_values |-> metric_values],
                                        dimension_headers, metric_headers)])
    /\ UNCHANGED <<config, now, reran, state, written, selected_streams, stream, pc,
                   start_date, end_date, chunk_vars, page_vars, retry_vars, error,
                   rows_left, first_unemitted, schemas, mdata, report>>

\* generate_sdc_record_hash called on a record of any start_date and end_date
\* (row_to_record always passes the date dimension's value for both)
GenerateHash ==
    /\ pc = "rows"
    /\ Len(records) <= 1
    /\ \E property_id \in PropertyIds, dimension_headers \in DimensionHeaders,
          start \in Values, end \in Values :
          \E dimension_values \in SeqsOf(Values, Len(dimension_headers)) :
             LET dimension_pairs == zip(dimension_headers, dimension_values)
                 record == [dimensions |-> update(dimension_pairs),
                            metrics |-> <<>>,
                            start_date |-> start,
                            end_date |-> end,
                            property_id |-> property_id]
             IN  records' = Append(records,
                    [time_extracted |-> Len(records) + 1,
                     dimension_headers |-> dimension_headers,
                     dimension_values |-> dimension_values,
                     rec |-> [dimensions |-> record.dimensions,
                              metrics |-> record.metrics,
                              start_date |-> record.start_date,
                              end_date |-> record.end_date,
                              property_id |-> record.property_id,
                              _sdc_record_hash |->
                                  generate_sdc_record_hash(record, dimension_pairs)]])
    /\ UNCHANGED <<config, now, reran, state, written, selected_streams, stream, pc,
                   start_date, end_date, chunk_vars, page_vars, retry_vars, error,
                   rows_left, first_unemitted, schemas, mdata, report>>

NextRecord ==
    \/ RowToRecord
    \/ GenerateHash

SpecRecord == InitRecord /\ [][NextRecord]_vars

\* ------------------------------------------------------------- texts
\* The strings of a response are TLA+ strings.
Char(s, i) == SubSeq(s, i, i)
IsDigit(c) == \E n \in 0..9 : ToString(n) = c
DigitOf(c) == CHOOSE n \in 0..9 : ToString(n) = c
AllDigits(s) == \A i \in 1..Len(s) : IsDigit(Char(s, i))
EmptyText == ""
OtherText == "(other)"

\* int(s) of a group strptime matched: digits, after a space at most
RECURSIVE IntOf(_)
IntOf(s) ==
    IF s = "" THEN 0
    ELSE 10 * IntOf(SubSeq(s, 1, Len(s) - 1))
         + (IF Char(s, Len(s)) = " " THEN 0 ELSE DigitOf(Char(s, Len(s))))

\* lines 74-79
DATETIME_FORMATS ==
    (DATE_HOUR :> "%Y%m%d%H")
    @@ (DATE_HOUR_MINUTE :> "%Y%m%d%H%M")
    @@ (DATE :> "%Y%m%d")
    @@ (FIRST_SESSION_DATE :> "%Y%m%d")

\* singer.utils.DATETIME_FMT
DATETIME_FMT == "%04Y-%m-%dT%H:%M:%S.%fZ"

\* the directives of one of DATETIME_FORMATS, in order
Directives(fmt) == [i \in 1..(Len(fmt) \div 2) |-> Char(fmt, 2 * i)]

\* _strptime's regular expression of a directive matches the string g:
\* %Y \d\d\d\d, %m 1[0-2]|0[1-9]|[1-9], %d 3[0-1]|[1-2]\d|0[1-9]|[1-9]| [1-9],
\* %H 2[0-3]|[0-1]\d|\d, %M [0-5]\d|\d
Accepts(d, g) ==
    CASE d = "Y" -> Len(g) = 4 /\ AllDigits(g)
      [] d = "m" -> /\ AllDigits(g)
                    /\ \/ Len(g) = 2 /\ IntOf(g) \in 1..12
                       \/ Len(g) = 1 /\ IntOf(g) \in 1..9
      [] d = "d" -> \/ Len(g) = 2 /\ AllDigits(g) /\ IntOf(g) \in 1..31
                    \/ Len(g) = 1 /\ AllDigits(g) /\ IntOf(g) \in 1..9
                    \/ Len(g) = 2 /\ Char(g, 1) = " " /\ IsDigit(Char(g, 2)) /\ IntOf(g) \in 1..9
      [] d = "H" -> /\ AllDigits(g)
                    /\ \/ Len(g) = 2 /\ IntOf(g) \in 0..23
                       \/ Len(g) = 1
      [] d = "M" -> /\ AllDigits(g)
                    /\ \/ Len(g) = 2 /\ IntOf(g) \in 0..59
                       \/ Len(g) = 1

\* the lengths of the alternatives of a directive, in the order the regular
\* expression tries them
Widths(d) == IF d = "Y" THEN <<4>> ELSE <<2, 1>>

NoMatch == [ok |-> FALSE, groups |-> <<>>, end |-> 0]

\* re.match of the format's regular expression on s from position pos: the
\* first match in the order of the alternatives, each directive giving way
\* to a shorter alternative when the rest of the format does not match
RECURSIVE Match(_, _, _)
Match(s, pos, directives) ==
    IF directives = <<>> THEN [ok |-> TRUE, groups |-> <<>>, end |-> pos]
    ELSE LET Try(w) ==
                 IF pos + w - 1 <= Len(s)
                    /\ Accepts(Head(directives), SubSeq(s, pos, pos + w - 1))
                 THEN LET rest == Match(s, pos + w, Tail(directives))
                      IN  IF rest.ok
                          THEN [ok |-> TRUE,
                                groups |-> <<SubSeq(s, pos, pos + w - 1)>> \o rest.groups,
                                end |-> rest.end]
                          ELSE NoMatch
                 ELSE NoMatch
             widths == Widths(Head(directives))
         IN  IF Try(widths[1]).ok THEN Try(widths[1])
             ELSE IF Len(widths) > 1 THEN Try(widths[2])
             ELSE NoMatch

IsLeap(y) == (y % 4 = 0 /\ y % 100 # 0) \/ y % 400 = 0
DaysInMonth(y, m) ==
    IF m = 2 THEN (IF IsLeap(y) THEN 29 ELSE 28)
    ELSE IF m \in {4, 6, 9, 11} THEN 30 ELSE 31

\* datetime.strptime(value, fmt) raises ValueError: the string does not match
\* the format, data remains after the match, or the year, month and day are
\* no date
strptime_raises(value, fmt) ==
    LET found == Match(value, 1, Directives(fmt))
    IN  ~ /\ found.ok
          /\ found.end = Len(value) + 1
          /\ IntOf(found.groups[1]) >= 1
          /\ IntOf(found.groups[3]) <= DaysInMonth(IntOf(found.groups[1]), IntOf(found.groups[2]))

\* datetime.strptime(value, fmt): year, month, day, hour, minute, second,
\* microsecond, those the format lacks being 0
strptime(value, fmt) ==
    LET groups == Match(value, 1, Directives(fmt)).groups
    IN  [i \in 1..7 |-> IF i <= Len(groups) THEN IntOf(groups[i]) ELSE 0]

\* the number n in decimal, zero-padded to the width w
RECURSIVE Pad(_, _)
Pad(n, w) == IF w <= Len(ToString(n)) THEN ToString(n) ELSE "0" \o Pad(n, w - 1)

\* datetime.strftime(DATETIME_FMT)
strftime(dt) ==
    Pad(dt[1], 4) \o "-" \o Pad(dt[2], 2) \o "-" \o Pad(dt[3], 2) \o "T"
    \o Pad(dt[4], 2) \o ":" \o Pad(dt[5], 2) \o ":" \o Pad(dt[6], 2)
    \o "." \o Pad(dt[7], 6) \o "Z"

\* lines 82-97
parse_datetime(field_name, value) ==
    IF strptime_raises(value, DATETIME_FORMATS[field_name])
    THEN <<value, FALSE>>
    ELSE <<strftime(strptime(value, DATETIME_FORMATS[field_name])), TRUE>>

\* line 104: the fields transform_datetimes parses.  The record's metrics, its
\* start_date, end_date, property_id and _sdc_record_hash are not names of
\* DATETIME_FORMATS.
IsDatetimeField(rec, field_name) ==
    /\ rec.dimensions[field_name] # EmptyText
    /\ field_name \in DOMAIN DATETIME_FORMATS

\* lines 100-109: the record returned
transform_datetimes(rec) ==
    [rec EXCEPT !.dimensions =
        [field_name \in DOMAIN rec.dimensions |->
            IF IsDatetimeField(rec, field_name)
            THEN parse_datetime(field_name, rec.dimensions[field_name])[1]
            ELSE rec.dimensions[field_name]]]

\* the warning logged for every value that does not parse
row_limit_reached_on_failure(rec) ==
    \E field_name \in DOMAIN rec.dimensions :
        /\ IsDatetimeField(rec, field_name)
        /\ ~parse_datetime(field_name, rec.dimensions[field_name])[2]

\* lines 102-108: the warning is logged
row_limit_reached(rec) ==
    \E field_name \in DOMAIN rec.dimensions :
        /\ IsDatetimeField(rec, field_name)
        /\ ~parse_datetime(field_name, rec.dimensions[field_name])[2]
        /\ rec.dimensions[field_name] = OtherText

\* line 66: list.index raises ValueError when no header is 'date', and the
\* subscript raises IndexError when the row has no value at its position
row_to_record_raises(row, dimension_headers) ==
    IF \A i \in DOMAIN dimension_headers : dimension_headers[i] # DATE
    THEN "ValueError"
    ELSE IF index(dimension_headers, DATE) > Len(row.dimension_values)
    THEN "IndexError"
    ELSE "none"

\* ------------------------------------------------------------ SpecRow
\* Lines 233-240 on one row of a response: any headers, any number of values
\* up to MaxRowValues, the values any of the texts below.
RowDimensionHeaders ==
    {<<DATE>>, <<DATE - 1, DATE>>, <<DATE_HOUR_MINUTE, DATE>>,
     <<DATE, DATE_HOUR>>, <<FIRST_SESSION_DATE, DATE>>, <<DATE - 1>>}
RowMetricHeaders == {<<SESSIONS>>}
DimensionTexts ==
    {"", "(other)", "notadate", "20230115", "20230230", "2023011509", "202301150930"}
MetricTexts == {"42"}
SeqsUpTo(S, n) == UNION {SeqsOf(S, k) : k \in 0..n}

InitRow == InitRecord

\* lines 233-240: the row is made into a record, its datetimes transformed,
\* and the record written
WriteRow ==
    /\ pc = "rows"
    /\ records = <<>>
    /\ \E property_id \in PropertyIds, dimension_headers \in RowDimensionHeaders,
          metric_headers \in RowMetricHeaders :
          \E dimension_values \in SeqsUpTo(DimensionTexts, MaxRowValues),
             metric_values \in SeqsUpTo(MetricTexts, MaxRowValues) :
             LET row == [dimension_values |-> dimension_values,
                         metric_values |-> metric_values]
                 raised == row_to_record_raises(row, dimension_headers)
                 rec == row_to_record([property_id |-> property_id], row,
                                      dimension_headers, metric_headers)
             IN  IF raised # "none"
                 THEN /\ error' = raised
                      /\ pc' = "failed"
                      /\ records' = records
                 ELSE /\ records' = <<[time_extracted |-> 1,
                                       dimension_headers |-> dimension_headers,
                                       dimension_values |-> dimension_values,
                                       metric_headers |-> metric_headers,
                                       metric_values |-> metric_values,
                                       row_to_record |-> rec,
                                       rec |-> transform_datetimes(rec),
                                       row_limit_reached |-> row_limit_reached(rec)]>>
                      /\ pc' = pc
                      /\ error' = error
    /\ UNCHANGED <<config, now, reran, state, written, selected_streams, stream,
                   start_date, end_date, chunk_vars, page_vars, retry_vars,
                   rows_left, first_unemitted, schemas, mdata, report>>

NextRow == WriteRow

SpecRow == InitRow /\ [][NextRow]_vars

\* --------------------------------------------------------- SpecClock
\* sleep_if_quota_reached called with a ResourceExhausted at any clock of
\* the sample below: every hour of the days 0..MaxClockDay.
ClockMinutes == {0, 30, 59}
ClockSeconds == {0, 9, 10, 11, 59}
ClockMicroseconds == {0, 1, 999999}
Clocks == [day : 0..MaxClockDay, hour : 0..23, minute : ClockMinutes,
           second : ClockSeconds, microsecond : ClockMicroseconds]

InitClock ==
    /\ \E clock \in Clocks :
          attempt = [outcome |-> "ResourceExhausted", at |-> clock, slept |-> <<>>]
    /\ tries = 1
    /\ pc = "request"
    /\ records = <<>>
    /\ config = [start_date |-> 0, end_date |-> 0]
    /\ now = Days(CONVERSION_WINDOW)
    /\ state = set_currently_syncing(EmptyState, 1)
    /\ written = set_currently_syncing(EmptyState, 1)
    /\ selected_streams = <<>>
    /\ stream = 1
    /\ start_date = 0 /\ end_date = 0
    /\ request_range = REQUEST_RANGE /\ chunks = <<>>
    /\ range_start = 0 /\ range_start_date = 0 /\ range_end_date = 0
    /\ row_count = 0 /\ offset = 0 /\ has_more_rows = TRUE
    /\ error = "none"
    /\ rows_left = 0 /\ pages = <<>>
    /\ first_unemitted = [s \in Streams |-> 0]
    /\ schemas = NoSchemas
    /\ mdata = StreamMetadata
    /\ report = NoReport
    /\ reran = FALSE

\* lines 159-164: giveup(e) on the caught exception
SleepIfQuotaReached ==
    /\ pc = "request"
    /\ attempt.outcome = "ResourceExhausted"
    /\ attempt.slept = <<>>
    /\ attempt' = [attempt EXCEPT !.slept = QuotaSleep(attempt.outcome, tries, attempt.at)]
    /\ UNCHANGED <<config, now, reran, records, state, written, selected_streams,
                   stream, pc, start_date, end_date, chunk_vars, page_vars, tries,
                   error, rows_left, first_unemitted, schemas, mdata, report>>

NextClock == SleepIfQuotaReached

SpecClock == InitClock /\ [][NextClock]_vars

\* -------------------------------------------------------- SpecFields
\* Lines 256-285 on every metadata of MaxFields fields after the stream's own
\* entry.
FieldMetadata(i) ==
    [breadcrumb : {<<"properties", FieldName(i)>>},
     inclusion : {"automatic", "available", "unsupported"},
     selected : {"True", "False", "None"},
     selected_by_default : {"True", "None"},
     behavior : {"METRIC", "DIMENSION", "None"}]
RECURSIVE FieldSeqs(_)
FieldSeqs(n) ==
    IF n = 0 THEN {<<>>}
    ELSE {Append(fields, m) : fields \in FieldSeqs(n - 1), m \in FieldMetadata(n)}
Metadatas == {<<RootMetadata>> \o fields : fields \in FieldSeqs(MaxFields)}

InitFields ==
    /\ mdata \in Metadatas
    /\ report = NoReport
    /\ config = [start_date |-> 0, end_date |-> 0]
    /\ now = Days(CONVERSION_WINDOW)
    /\ state = set_currently_syncing(EmptyState, 1)
    /\ written = set_currently_syncing(EmptyState, 1)
    /\ selected_streams = <<>>
    /\ stream = 1
    /\ pc = "selecting"
    /\ start_date = 0 /\ end_date = 0
    /\ request_range = REQUEST_RANGE /\ chunks = <<>>
    /\ range_start = 0 /\ range_start_date = 0 /\ range_end_date = 0
    /\ row_count = 0 /\ offset = 0 /\ has_more_rows = FALSE
    /\ tries = 0 /\ error = "none"
    /\ attempt = NoAttempt
    /\ rows_left = 0 /\ pages = <<>>
    /\ first_unemitted = [s \in Streams |-> 0]
    /\ schemas = NoSchemas
    /\ reran = FALSE
    /\ records = <<>>

NextFields == PlanReport

SpecFields == InitFields /\ [][NextFields]_vars

\* ================================================================ claims
InChunk == pc \in {"request", "rows", "bookmark_set"}
Transient == {"ServerError", "TooManyRequests"}

\* C1 (as claimed): in a run that started without bookmarks, while pages of
\* the chunk sync_report works on are still outstanding, the bookmark last
\* written for the stream is not that chunk's end_date.
C1_BookmarkOnlyAfterChunk ==
    (~reran /\ InChunk /\ has_more_rows /\ HasBookmark(written, stream))
        => written.bookmarks[stream] # range_end_date

\* C2 (as claimed): when the tap is run again on the state last written, the
\* start date it resolves for a stream is no later than the earliest day of
\* the span whose rows were not all written, so that day is requested again.
C2_RerunRequestsUnwrittenDays ==
    (reran /\ pc = "chunks" /\ range_start = start_date
           /\ first_unemitted[stream] <= StrfDate(end_date))
        => StrfDate(start_date) <= first_unemitted[stream]

\* C3 (as claimed): a quota-exhaustion error (ResourceExhausted) never leaves
\* make_request, whatever the number of attempts that met one.
C3_QuotaErrorNeverSurfaced == error # "ResourceExhausted"

\* C4: make_request makes at most max_tries = 5 attempts of a page request; a
\* response that follows fewer than 5 failed attempts is returned; a server
\* error or too-many-requests error reaches the caller only as the error of
\* the 5th attempt, and sync ends there.
C4_TransientRetriesCapped ==
    /\ pc = "request" => tries < max_tries
    /\ pc = "rows" => tries \in 1..max_tries
    /\ (pc = "failed" /\ error \in Transient) => tries = max_tries
    /\ pc = "failed" => error # "none" /\ written.currently_syncing = stream

C4_Witness == pc = "failed" /\ error \in Transient /\ tries = max_tries

\* max(1, ceil(r / 100000))
PagesOf(r) == IF r = 0 THEN 1 ELSE (r + REPORT_LIMIT - 1) \div REPORT_LIMIT

\* C6: with the API reporting the total r for the chunk's query, get_report
\* requests the offsets 0, 100000, 200000, ... and has made its last request
\* after exactly max(1, ceil(r / 100000)) pages.
C6_PagesOfChunk ==
    /\ \A i \in 1..Len(pages) : pages[i] = (i - 1) * REPORT_LIMIT
    /\ Len(pages) <= PagesOf(row_count)
    /\ (pages # <<>> /\ ~has_more_rows) => Len(pages) = PagesOf(row_count)
    /\ (InChunk /\ Len(pages) < PagesOf(row_count)) => has_more_rows

C6_Witness ==
    /\ row_count = (5 * REPORT_LIMIT) \div 2
    /\ pages = <<0, REPORT_LIMIT, 2 * REPORT_LIMIT>>
    /\ ~has_more_rows

\* ------------------------------------------------- C7, C8, C9 (SpecPlan)
Planned == pc = "chunks"
Bookmark == StrpDate(state.bookmarks[stream])
\* today's UTC midnight minus 90 days: the datetime c at a midnight with
\* c + 90 days <= now < c + 91 days
IsConversionDay(c) ==
    /\ c % TicksPerDay = 0
    /\ c + Days(CONVERSION_WINDOW) <= now
    /\ now < c + Days(CONVERSION_WINDOW + 1)
ConversionDay == CHOOSE c \in 0..now : IsConversionDay(c)
IsMax(m, S) == m \in S /\ \A x \in S : x <= m
IsMin(m, S) == m \in S /\ \A x \in S : m <= x

\* C7: get_report_start_date returns the configured start_date when the
\* stream has no bookmark, and otherwise min(bookmark, max(configured
\* start_date, conversion_day)), conversion_day being today's UTC midnight
\* minus 90 days.
C7_StartDateResolved ==
    Planned =>
        IF ~HasBookmark(state, stream)
        THEN start_date = config.start_date
        ELSE \E m \in {config.start_date, ConversionDay} :
                /\ IsMax(m, {config.start_date, ConversionDay})
                /\ IsMin(start_date, {Bookmark, m})

C7_Witness ==
    /\ Planned
    /\ HasBookmark(state, stream)
    /\ now % TicksPerDay # 0
    /\ config.start_date < ConversionDay
    /\ ConversionDay < Bookmark
    /\ start_date = ConversionDay

\* C8 (as claimed): given a bookmark older than now - 90 days, the resolved
\* start date is max(configured start, now - 90 days).
C8_OldBookmarkGivesWindowStart ==
    (Planned /\ HasBookmark(state, stream) /\ Bookmark < ConversionDay)
        => IsMax(start_date, {config.start_date, ConversionDay})

\* C8 (amended): given a bookmark older than now - 90 days, the resolved
\* start date is the bookmark, for every configured start.
C8_OldBookmarkGivesBookmark ==
    (Planned /\ HasBookmark(state, stream) /\ Bookmark < ConversionDay)
        => start_date = Bookmark

C8_Witness ==
    /\ Planned
    /\ HasBookmark(state, stream)
    /\ Bookmark < ConversionDay
    /\ config.start_date < Bookmark
    /\ start_date = Bookmark

\* C9 (as claimed): given a bookmark within the conversion window (bookmark
\* >= now - 90 days) and after the configured start, the resolved start date
\* is the bookmark.
C9_RecentBookmarkGivesBookmark ==
    (Planned /\ HasBookmark(state, stream) /\ Bookmark >= ConversionDay
             /\ Bookmark > config.start_date)
        => start_date = Bookmark

\* C9 (amended): given a bookmark within the conversion window and after the
\* configured start, the resolved start date is max(configured start,
\* conversion day), which is the bookmark only when the bookmark is the
\* conversion day itself.
C9_RecentBookmarkGivesWindowStart ==
    (Planned /\ HasBookmark(state, stream) /\ Bookmark >= ConversionDay
             /\ Bookmark > config.start_date)
        => /\ IsMax(start_date, {config.start_date, ConversionDay})
           /\ (start_date = Bookmark <=> Bookmark = ConversionDay)

C9_Witness ==
    /\ Planned
    /\ HasBookmark(state, stream)
    /\ Bookmark > ConversionDay
    /\ ConversionDay > config.start_date
    /\ start_date = ConversionDay

\* ------------------------------------------------------- C5 (SpecDates)
Exhausted == pc = "chunks" /\ ~(range_start <= end_date)
ChunkDays(c) == c[1]..c[2]

\* C5 (as claimed): for start_date <= end_date and every positive span_days
\* the chunks generate_report_dates yields begin at start_date, each later one
\* begins the day after the one before ended, every chunk but the last spans
\* span_days days, the last ends at end_date, and every calendar date from
\* start_date to end_date lies in exactly one chunk.
C5_ChunksCoverSpan ==
    (Exhausted /\ start_date <= end_date) =>
        /\ chunks # <<>>
        /\ chunks[1][1] = StrfDate(start_date)
        /\ \A i \in 2..Len(chunks) : chunks[i][1] = chunks[i - 1][2] + 1
        /\ \A i \in 1..(Len(chunks) - 1) : chunks[i][2] - chunks[i][1] + 1 = request_range
        /\ chunks[Len(chunks)][2] - chunks[Len(chunks)][1] + 1 \in 1..request_range
        /\ chunks[Len(chunks)][2] = StrfDate(end_date)
        /\ \A d \in StrfDate(start_date)..StrfDate(end_date) :
              Cardinality({i \in DOMAIN chunks : d \in ChunkDays(chunks[i])}) = 1

\* ------------------------------------------------------ C10 (SpecRecord)
PairSet(r) == {<<r.dimension_headers[i], r.dimension_values[i]>> : i \in DOMAIN r.dimension_headers}

\* C10: two records have the same _sdc_record_hash exactly when they agree on
\* property_id, on the set of (dimension name, dimension value) pairs, on
\* start_date and on end_date, whatever the order of the dimension headers,
\* the metric values, the rows' positions and the extraction times.
C10_HashIdentifiesRecord ==
    \A i, j \in DOMAIN records :
        (records[i].rec._sdc_record_hash = records[j].rec._sdc_record_hash)
        <=> /\ records[i].rec.property_id = records[j].rec.property_id
            /\ PairSet(records[i]) = PairSet(records[j])
            /\ records[i].rec.start_date = records[j].rec.start_date
            /\ records[i].rec.end_date = records[j].rec.end_date

C10_Witness ==
    /\ Len(records) = 2
    /\ records[1].dimension_headers = <<DATE - 1, DATE>>
    /\ records[2].dimension_headers = <<DATE, DATE - 1>>
    /\ records[1].rec.metrics # records[2].rec.metrics
    /\ records[1].time_extracted # records[2].time_extracted
    /\ records[1].rec._sdc_record_hash = records[2].rec._sdc_record_hash

\* --------------------------------------------------------- C11 (SpecRow)
\* C11 (as claimed): no record is made of a row whose number of dimension
\* values differs from the number of dimension headers, or whose number of
\* metric values differs from the number of metric headers.
C11_MismatchIsFatal ==
    \A i \in DOMAIN records :
        /\ Len(records[i].dimension_values) = Len(records[i].dimension_headers)
        /\ Len(records[i].metric_values) = Len(records[i].metric_headers)

\* --------------------------------------------------------- C12 (SpecRow)
DatetimeFields == {DATE, DATE_HOUR, DATE_HOUR_MINUTE, FIRST_SESSION_DATE}
Parses(field_name, v) == ~strptime_raises(v, DATETIME_FORMATS[field_name])
Width(field_name) ==
    IF field_name = DATE_HOUR THEN 10 ELSE IF field_name = DATE_HOUR_MINUTE THEN 12 ELSE 8
\* v is a calendar date (and time) written yyyymmdd, yyyymmddHH or
\* yyyymmddHHMM, as the field's format has it
Compact(field_name, v) ==
    /\ Len(v) = Width(field_name)
    /\ AllDigits(v)
    /\ IntOf(SubSeq(v, 1, 4)) >= 1
    /\ IntOf(SubSeq(v, 5, 6)) \in 1..12
    /\ IntOf(SubSeq(v, 7, 8)) \in 1..DaysInMonth(IntOf(SubSeq(v, 1, 4)), IntOf(SubSeq(v, 5, 6)))
    /\ Len(v) >= 10 => IntOf(SubSeq(v, 9, 10)) \in 0..23
    /\ Len(v) >= 12 => IntOf(SubSeq(v, 11, 12)) \in 0..59
\* the normalized timestamp of such a v
Normalized(v) ==
    SubSeq(v, 1, 4) \o "-" \o SubSeq(v, 5, 6) \o "-" \o SubSeq(v, 7, 8) \o "T"
    \o (IF Len(v) >= 10 THEN SubSeq(v, 9, 10) ELSE "00") \o ":"
    \o (IF Len(v) >= 12 THEN SubSeq(v, 11, 12) ELSE "00") \o ":00.000000Z"

\* C12: transform_datetimes replaces the value of every non-empty field named
\* date, dateHour, dateHourMinute or firstSessionDate by its normalized
\* timestamp exactly when the value parses in the field's format (a value
\* written in the field's compact format parses, to the timestamp of its date
\* and time) and leaves it unchanged otherwise; the row-limit warning is
\* raised exactly when such a field does not parse and holds "(other)"; a
\* value that does not parse for another reason raises neither the warning
\* nor an error; every other field of the record is unchanged.
C12_DatetimesTransformed ==
    \A i \in DOMAIN records :
        LET raw == records[i].row_to_record
            out == records[i].rec
        IN  /\ DOMAIN out.dimensions = DOMAIN raw.dimensions
            /\ \A f \in DOMAIN raw.dimensions :
                  /\ (out.dimensions[f] # raw.dimensions[f])
                        => /\ f \in DatetimeFields
                           /\ raw.dimensions[f] # ""
                           /\ Parses(f, raw.dimensions[f])
                  /\ (f \in DatetimeFields /\ raw.dimensions[f] # ""
                         /\ Parses(f, raw.dimensions[f]))
                        => out.dimensions[f] =
                              strftime(strptime(raw.dimensions[f], DATETIME_FORMATS[f]))
                  /\ (f \in DatetimeFields /\ Compact(f, raw.dimensions[f]))
                        => out.dimensions[f] = Normalized(raw.dimensions[f])
            /\ records[i].row_limit_reached
                  <=> \E f \in DatetimeFields \cap DOMAIN raw.dimensions :
                         ~Parses(f, raw.dimensions[f]) /\ raw.dimensions[f] = "(other)"
            /\ out.metrics = raw.metrics
            /\ out.start_date = raw.start_date
            /\ out.end_date = raw.end_date
            /\ out.property_id = raw.property_id
            /\ out._sdc_record_hash = raw._sdc_record_hash
            /\ error = "none"

C12_Witness ==
    /\ Len(records) = 1
    /\ records[1].dimension_headers = <<DATE, DATE_HOUR>>
    /\ records[1].dimension_values = <<"(other)", "2023011509">>
    /\ records[1].rec.dimensions[DATE] = "(other)"
    /\ records[1].rec.dimensions[DATE_HOUR] = "2023-01-15T09:00:00.000000Z"
    /\ records[1].row_limit_reached
    /\ error = "none"

\* ------------------------------------------------------------ C13 (Spec)
\* C13: an exception of the remote call that is no ServerError, no
\* TooManyRequests and no ResourceExhausted leaves make_request with the
\* attempt that raised it: sync has ended with that exception, nothing was
\* slept and no attempt follows.
C13_OtherErrorPropagates ==
    attempt.outcome = "OtherError"
        => /\ pc = "failed"
           /\ error = "OtherError"
           /\ attempt.slept = <<>>

C13_Witness ==
    /\ pc = "failed"
    /\ error = "OtherError"
    /\ attempt.outcome = "OtherError"
    /\ tries = 1
    /\ attempt.slept = <<>>

\* ------------------------------------------------------------ C20 (Spec)
\* the whole seconds from the clock reading to 10 seconds past the next hour
SecondsToTenPastNextHour(clock) ==
    IF clock.microsecond = 0
    THEN 3610 - 60 * clock.minute - clock.second
    ELSE 3609 - 60 * clock.minute - clock.second

\* C20: after an attempt failed with ResourceExhausted, make_request has
\* slept seconds_to_next_hour() seconds, counted from the clock read at the
\* failure, before it makes another attempt and before the exception leaves
\* it; neither a result nor another request comes before that sleep.
C20_QuotaErrorWaits ==
    attempt.outcome = "ResourceExhausted"
        => /\ attempt.slept # <<>>
           /\ attempt.slept[1] = SecondsToTenPastNextHour(attempt.at)
           /\ attempt.slept[1] \in 10..3610

C20_Witness ==
    /\ pc = "failed"
    /\ error = "ResourceExhausted"
    /\ attempt.at = [day |-> 0, hour |-> 23, minute |-> 59, second |-> 59,
                     microsecond |-> 999999]
    /\ attempt.slept = <<10>>

\* ------------------------------------------------------------ C14 (Spec)
\* C14: for each selected stream sync writes one schema, and writes it before
\* every request, record and bookmark snapshot of the stream's chunks; once
\* all streams are done each has exactly one; the streams are taken one
\* after another: a stream whose schema is written is never taken again, and
\* every stream taken before the running one has its schema.
C14_OneSchemaThenRecords ==
    /\ \A s \in Streams : schemas[s] <= 1
    /\ InChunk => schemas[stream] = 1
    /\ pc = "done" => \A s \in Streams : schemas[s] = 1
    /\ \A s \in Streams :
          schemas[s] = 1 => \A i \in DOMAIN selected_streams : selected_streams[i] # s
    /\ Cardinality({s \in Streams : schemas[s] = 1}) + Len(selected_streams)
          + (IF pc \in {"syncing_set", "selecting"} THEN 1 ELSE 0) = NumStreams

C14_Witness ==
    /\ pc = "rows"
    /\ rows_left > 0
    /\ stream = 2
    /\ schemas = [s \in Streams |-> 1]
    /\ ~reran

\* ------------------------------------------------------------ C15 (Spec)
\* C15: when sync_report is given a start_date later than end_date,
\* generate_report_dates yields no chunk and raises nothing, and sync_report
\* returns without a request, without a record, and with the stream's
\* bookmark as it was.
C15_EmptySpan ==
    [][(pc = "chunks" /\ start_date > end_date /\ reran' = reran)
          => /\ chunks = <<>> /\ chunks' = <<>>
             /\ pages' = pages
             /\ rows_left' = rows_left
             /\ tries' = 0
             /\ error' = "none"
             /\ pc' = "streams"
             /\ state'.bookmarks = state.bookmarks
             /\ written'.bookmarks = state.bookmarks]_vars

C15_Witness ==
    /\ pc = "streams"
    /\ stream # NoStream
    /\ start_date > end_date
    /\ chunks = <<>>
    /\ error = "none"
    /\ written = state
    /\ ~HasBookmark(state, stream)

\* -------------------------------------------------------- C16 (SpecPlan)
\* C16 (as claimed): the start date get_report_start_date resolves is never
\* earlier than the configured start_date, whatever the bookmark.
C16_NeverBeforeConfiguredStart == Planned => start_date >= config.start_date

\* -------------------------------------------------------- C17 (SpecPlan)
\* C17 (as claimed): with a bookmark, the start date get_report_start_date
\* resolves is never later than today's midnight minus 90 days.
C17_NeverAfterWindowStart ==
    (Planned /\ HasBookmark(state, stream)) => start_date <= ConversionDay

\* C17 (amended): with a bookmark, the resolved start date is never later
\* than the later of the configured start_date and today's midnight minus 90
\* days.
C17_NeverAfterStartOrWindowStart ==
    (Planned /\ HasBookmark(state, stream))
        => start_date <= Max2(config.start_date, ConversionDay)

C17_Witness ==
    /\ Planned
    /\ HasBookmark(state, stream)
    /\ config.start_date > ConversionDay
    /\ Bookmark > config.start_date
    /\ start_date = config.start_date

\* ------------------------------------------------------------ C18 (Spec)
\* C18: while sync works on the chunks of a stream (requests, records,
\* bookmarks), the state last written names that stream as currently_syncing;
\* the marker names one stream at most; once every selected stream is done,
\* the state last written has the marker cleared.
C18_CurrentlySyncingMarker ==
    /\ InChunk => written.currently_syncing = stream /\ stream \in Streams
    /\ state.currently_syncing \in Streams \cup {NoStream}
    /\ written.currently_syncing \in Streams \cup {NoStream}
    /\ pc = "done" => written.currently_syncing = NoStream /\ selected_streams = <<>>

C18_Witness ==
    /\ reran
    /\ pc = "rows"
    /\ rows_left > 0
    /\ stream = 2
    /\ selected_streams = <<1>>
    /\ written.currently_syncing = 2

\* ------------------------------------------------------------ C19 (Spec)
\* C19: the state is written after each of its mutations (the marker set or
\* cleared, a bookmark overwritten) before sync does anything else: whenever
\* a request is made or a record written the state last written is the state
\* in memory, the state is mutated only when it is the one last written, and
\* the step after a mutation writes it.
C19_StateWrittenAfterMutation ==
    [][/\ pc \in {"request", "rows"} => written = state
       /\ reran' = reran
            => /\ state' # state => written = state
               /\ written # state => (written' = state /\ state' = state)]_vars

C19_Witness ==
    /\ pc = "request"
    /\ HasBookmark(state, stream)
    /\ state.bookmarks[stream] = range_end_date
    /\ has_more_rows
    /\ written = state
    /\ ~reran

\* ------------------------------------------------------- C21 (SpecClock)
\* seconds since the midnight of day 0
Epoch(dt) == dt.day * 86400 + dt.hour * 3600 + dt.minute * 60 + dt.second
TopOfNextHour(dt) == dt.day * 86400 + (dt.hour + 1) * 3600

\* C21: at every clock in whole seconds seconds_to_next_hour returns a wait w
\* with 10 < w <= 3610 such that the clock plus w is 10 seconds past the top
\* of the next hour, in the first 10 seconds of an hour and before midnight
\* too.
C21_WaitEndsTenPastNextHour ==
    (attempt.slept # <<>> /\ attempt.at.microsecond = 0)
        => /\ 10 < attempt.slept[1] /\ attempt.slept[1] <= 3610
           /\ Epoch(attempt.at) + attempt.slept[1] = TopOfNextHour(attempt.at) + 10

C21_Witness ==
    /\ attempt.at = [day |-> 0, hour |-> 23, minute |-> 0, second |-> 9, microsecond |-> 0]
    /\ attempt.slept = <<3601>>

\* ------------------------------------------------------ C22 (SpecFields)
Requested(sq) == {sq[i] : i \in DOMAIN sq}
Times(sq, x) == Cardinality({i \in DOMAIN sq : sq[i] = x})
\* the claim's condition of inclusion
Selected(m) ==
    /\ m.inclusion # "unsupported"
    /\ \/ m.inclusion = "automatic"
       \/ m.selected = "True"
       \/ (m.selected_by_default = "True" /\ m.selected = "None")

\* C22: sync requests a field of the catalog as a metric exactly when the
\* field is not unsupported, is automatic, selected, or selected by default
\* with no value of "selected", and its behavior is METRIC; as a dimension
\* exactly when the same holds with the behavior DIMENSION; a deselected
\* field that is not automatic is left out even when it is selected by
\* default, and so is a field of neither behavior; no field is requested
\* twice, nor the stream's own entry.
C22_FieldSelection ==
    Planned =>
        /\ \A i \in 2..Len(mdata) :
              LET m == mdata[i]
                  name == m.breadcrumb[2]
              IN  /\ Times(report.metrics, name)
                        = IF Selected(m) /\ m.behavior = "METRIC" THEN 1 ELSE 0
                  /\ Times(report.dimensions, name)
                        = IF Selected(m) /\ m.behavior = "DIMENSION" THEN 1 ELSE 0
                  /\ (m.selected = "False" /\ m.inclusion # "automatic")
                        => name \notin Requested(report.metrics) \cup Requested(report.dimensions)
        /\ Len(report.metrics) + Len(report.dimensions) <= Len(mdata) - 1

C22_Witness ==
    /\ Planned
    /\ mdata[2].selected = "False"
    /\ mdata[2].selected_by_default = "True"
    /\ mdata[2].inclusion = "available"
    /\ mdata[2].behavior = "METRIC"
    /\ mdata[3].selected = "None"
    /\ mdata[3].selected_by_default = "True"
    /\ mdata[3].inclusion = "available"
    /\ mdata[3].behavior = "DIMENSION"
    /\ report = [metrics |-> <<>>, dimensions |-> <<FieldName(2)>>]

\* ------------------------------------------------------------ C23 (Spec)
\* C23 (as claimed): in one pass of sync_report over a span with start_date
\* <= end_date, a bookmark written after another of the pass is not earlier
\* than it, and when the pass ends the bookmark last written is end_date's
\* calendar day.
C23_BookmarksReachEndDate ==
    [][/\ (pc = "bookmark_set" /\ pc' \in {"request", "chunks"}
              /\ (Len(chunks) > 1 \/ Len(pages) > 1))
          => written'.bookmarks[stream] >= written.bookmarks[stream]
       /\ (pc = "chunks" /\ ~(range_start <= end_date) /\ start_date <= end_date
              /\ pc' = "streams" /\ reran' = reran)
          => /\ HasBookmark(written', stream)
             /\ written'.bookmarks[stream] = StrfDate(end_date)]_vars

\* ------------------------------------------------------------ C24 (Spec)
\* C24: an attempt of make_request that fails and is retried leaves the
\* chunk, the offset and the pages yielded as they were, so the next attempt
\* issues the same request; a response is yielded for the offset requested,
\* which is 100000 times the number of pages yielded before it, so the
\* offsets yielded are 0, 100000, 200000, ... each once; and the request of
\* the next chunk follows the last page of the chunk before it.
C24_RetryReissuesRequest ==
    [][/\ (pc = "request" /\ pc' = "request")
          => /\ tries' = tries + 1 /\ tries' < max_tries
             /\ attempt'.outcome \in Retryable
             /\ offset' = offset /\ pages' = pages /\ chunks' = chunks
             /\ range_start_date' = range_start_date
             /\ range_end_date' = range_end_date
       /\ (pc = "request" /\ pc' = "rows")
          => /\ offset = Len(pages) * REPORT_LIMIT
             /\ pages' = Append(pages, offset)
             /\ \A i \in 1..Len(pages') : pages'[i] = (i - 1) * REPORT_LIMIT
             /\ chunks' = chunks
             /\ range_start_date' = range_start_date
             /\ range_end_date' = range_end_date
       /\ (Len(chunks') > Len(chunks) /\ chunks # <<>>)
          => /\ ~has_more_rows
             /\ Len(pages) = PagesOf(row_count)
             /\ pages[Len(pages)] + REPORT_LIMIT >= row_count]_vars

\* the second page of the second chunk is yielded at the third attempt
C24_Witness ==
    /\ pc = "rows"
    /\ tries = 3
    /\ pages = <<0, REPORT_LIMIT>>
    /\ Len(chunks) = 2

====
